---- MODULE Spec2Model ----
(***************************************************************************)
(* The authorized transport of package aps: a token held under a           *)
(* sync.RWMutex, read by Token, replaced by SetToken and RefreshToken, and *)
(* used by RoundTrip to set the Authorization header on a clone of the     *)
(* caller's request.                                                       *)
(*                                                                         *)
(* Pointers are object identifiers.  A *oauth2.Token is 0 (nil) or the     *)
(* identifier of a token object in `heap`; a *http.Request is the          *)
(* identifier of a request struct in `requests`, whose Header field is the *)
(* identifier of a map in `headers`, whose entries are identifiers of      *)
(* []string slices in `values`.                                            *)
(***************************************************************************)
EXTENDS Integers, Sequences, FiniteSets, TLC

\* ---------------------------------------------------------------- bounds
NumProcs == 2        \* goroutines using the one transport
MaxCalls == 2        \* calls made on the transport in the general scenario
MaxTime  == 2        \* the wall clock runs 1..MaxTime

Procs == 1..NumProcs

\* ---------------------------------------------------------------- values
defaultTokenType == "Bearer"

Nil == 0                      \* the nil pointer
ZeroTime == 0                 \* time.Time{}: Expiry.IsZero()
NoErr == "nil"                \* the nil error / nil response
FetchErrors == {"E1", "E2"}   \* errors a fetcher returns
SendErrors == {"E3"}          \* errors the underlying transport returns
Responses == {"R1"}           \* responses the underlying transport returns

AccessTokens == {"", "a1", "a2"}
TokenTypes == {"", "MAC"}
RefreshTokens == {"", "r1"}
Expiries == 0..(MaxTime + 1)

TokenRec == [AccessToken : AccessTokens \cup {"x"}, TokenType : TokenTypes \cup {"x"},
             RefreshToken : RefreshTokens \cup {"x"}, Expiry : 0..(MaxTime + 2)]
PlainTokens == [AccessToken : AccessTokens, TokenType : TokenTypes,
                RefreshToken : RefreshTokens, Expiry : Expiries]

ZeroToken == [AccessToken |-> "", TokenType |-> "", RefreshToken |-> "", Expiry |-> ZeroTime]

\* The token objects the callers and the fetcher own: object i holds ExtTokens[i].
\*   1: valid at time 1, expired from time 2 on
\*   2: no expiry set, type MAC
\*   3: empty access token with an expiry in the future
ExtTokens ==
  << [AccessToken |-> "a1", TokenType |-> "", RefreshToken |-> "r1", Expiry |-> 1],
     [AccessToken |-> "a2", TokenType |-> "MAC", RefreshToken |-> "", Expiry |-> ZeroTime],
     [AccessToken |-> "", TokenType |-> "", RefreshToken |-> "r1", Expiry |-> MaxTime + 1] >>
ExtObjs == 1..Len(ExtTokens)
CopyObj(p) == Len(ExtTokens) + p          \* the object Token() allocates for p
Objs == ExtObjs \cup {CopyObj(p) : p \in Procs}

\* Requests: struct 0, map 0 and slices 1, 2 are the caller's; struct p, map p
\* and slice 2 + p are what cloneRequest and Header.Set allocate for p.
HeaderKeys == {"Authorization", "Accept"}
ReqIds == 0..NumProcs
SliceIds == 1..(2 + NumProcs)
AuthSlice(p) == 2 + p
NoReq == [Method |-> "", Header |-> 0]
NoHeader == [k \in HeaderKeys |-> 0]

\* What FetchToken and the underlying transport can return.
FetchResults ==
  [tok : {Nil} \cup ExtObjs, err : {NoErr}] \cup {[tok |-> Nil, err |-> "E1"], [tok |-> 2, err |-> "E2"]}
DispatchResults == [resp : Responses, err : {NoErr}] \cup [resp : {NoErr}, err : SendErrors]
NoResult == [resp |-> NoErr, err |-> NoErr]

VARIABLES
  token,      \* authorizedTransport.token
  heap,       \* the token objects: object -> oauth2.Token
  mu,         \* authorizedTransport.mu: [writer |-> holder or 0, readers |-> set]
  now,        \* time.Now()
  pc,         \* where each goroutine is
  ret,        \* where its Token / RefreshToken call returns to
  op,         \* the method of the transport it is in, or last returned from
  tok,        \* RoundTrip's local `token`; the value Token() returned
  arg,        \* SetToken's argument
  hint,       \* the argument of the FetchToken call in progress
  out,        \* what FetchToken returned: [tok, err]
  rerr,       \* what RefreshToken returned
  req,        \* RoundTrip's local `req`
  requests,   \* request structs: id -> [Method, Header]
  headers,    \* header maps: id -> [key -> slice or 0]
  values,     \* []string slices: id -> sequence of strings
  result,     \* what the goroutine's last RoundTrip / RefreshToken returned
  hist,       \* per call: fetcher and transport invocations, what was read and sent
  calls,      \* calls that may still be started
  fetchable,  \* the results the fetcher of this scenario produces
  probe       \* input and output of a direct Expired call

vars == << token, heap, mu, now, pc, ret, op, tok, arg, hint, out, rerr, req,
           requests, headers, values, result, hist, calls, fetchable, probe >>

NoHist == [fetches |-> 0, sends |-> 0, first |-> << >>, sent |-> << >>, got |-> << >>]

\* ------------------------------------------------------------- Expired
\* Expired(t *oauth2.Token) at wall-clock time `clock`.  t.AccessToken on a nil
\* pointer is a nil dereference.
ExpiredNotAfter(t, clock) ==
  IF t = Nil THEN "panic"
  ELSE IF heap[t].AccessToken = "" THEN "true"
  ELSE IF heap[t].Expiry = ZeroTime THEN "false"
  ELSE IF heap[t].Expiry <= clock THEN "true" ELSE "false"

Expired(t, clock) ==
  IF t = Nil THEN "panic"
  ELSE IF heap[t].AccessToken = "" THEN "true"
  ELSE IF heap[t].Expiry = ZeroTime THEN "false"
  ELSE IF heap[t].Expiry < clock THEN "true" ELSE "false"

\* ------------------------------------------------------------ sync.RWMutex
\* RLock waits while a writer holds the lock; Lock waits while a writer or any
\* reader holds it.  (That a waiting Lock also holds back new readers is left
\* out: it removes interleavings and adds none.)
CanRLockAlways == TRUE

CanRLock == mu.writer = 0
CanLock == mu.writer = 0 /\ mu.readers = {}

\* ------------------------------------------------------------- the calls
Ready(p) == pc[p] \in {"idle", "held"}

\* A call's locals, and the objects only they refer to, are gone when it returns.
DropLocals(p) ==
  /\ tok' = [tok EXCEPT ![p] = Nil]
  /\ hint' = [hint EXCEPT ![p] = Nil]
  /\ out' = [out EXCEPT ![p] = [tok |-> Nil, err |-> NoErr]]
  /\ rerr' = [rerr EXCEPT ![p] = NoErr]
  /\ req' = [req EXCEPT ![p] = 0]
  /\ requests' = [requests EXCEPT ![p] = NoReq]
  /\ headers' = [headers EXCEPT ![p] = NoHeader]
  /\ values' = [values EXCEPT ![AuthSlice(p)] = << >>]

DropCopy(h, p) == [h EXCEPT ![CopyObj(p)] = ZeroToken]

Begin(p, method, at, back) ==
  /\ Ready(p)
  /\ calls > 0
  /\ calls' = calls - 1
  /\ op' = [op EXCEPT ![p] = method]
  /\ pc' = [pc EXCEPT ![p] = at]
  /\ ret' = [ret EXCEPT ![p] = back]
  /\ DropLocals(p)
  /\ heap' = DropCopy(heap, p)
  /\ result' = [result EXCEPT ![p] = NoResult]
  /\ hist' = [hist EXCEPT ![p] = NoHist]
  /\ UNCHANGED << token, mu, now, fetchable, probe >>

\* The call returns res to its caller.
\* got is what the underlying transport handed back to the call, if it got that
\* far; it stays in hist with the counters once the call is over.
ReturnGot(p, res, got) ==
  /\ pc' = [pc EXCEPT ![p] = "idle"]
  /\ result' = [result EXCEPT ![p] = res]
  /\ ret' = [ret EXCEPT ![p] = "idle"]
  /\ arg' = [arg EXCEPT ![p] = Nil]
  /\ DropLocals(p)
  /\ heap' = DropCopy(heap, p)
  /\ hist' = [hist EXCEPT ![p].first = << >>, ![p].sent = << >>, ![p].got = got]

Return(p, res) == ReturnGot(p, res, << >>)

CallRoundTrip(p) ==
  /\ Begin(p, "RoundTrip", "tk_rlock", "rt_check")
  /\ UNCHANGED arg

CallToken(p) ==
  /\ Begin(p, "Token", "tk_rlock", "held")
  /\ UNCHANGED arg

CallSetToken(p) ==
  /\ Begin(p, "SetToken", "st_lock", "idle")
  /\ \E x \in {Nil} \cup ExtObjs : arg' = [arg EXCEPT ![p] = x]

CallRefreshToken(p) ==
  /\ Begin(p, "RefreshToken", "rf_lock", "idle")
  /\ UNCHANGED arg

\* ------------------------------------------------------------- Token()
TokenRLock(p) ==
  /\ pc[p] = "tk_rlock"
  /\ CanRLock
  /\ mu' = [mu EXCEPT !.readers = @ \cup {p}]
  /\ pc' = [pc EXCEPT ![p] = "tk_copy"]
  /\ UNCHANGED << token, heap, now, ret, op, tok, arg, hint, out, rerr, req,
                  requests, headers, values, result, hist, calls, fetchable, probe >>

\* What Token() returns and the heap after it: nil, or a new object holding the
\* four fields of the stored token.
TokenAlias(p) == [ref |-> token, heap |-> heap]

TokenValuePartial(p) ==
  IF token = Nil THEN [ref |-> Nil, heap |-> heap]
  ELSE [ref |-> CopyObj(p),
        heap |-> [heap EXCEPT ![CopyObj(p)] = [heap[token] EXCEPT !.RefreshToken = ""]]]

TokenValue(p) ==
  IF token = Nil THEN [ref |-> Nil, heap |-> heap]
  ELSE [ref |-> CopyObj(p), heap |-> [heap EXCEPT ![CopyObj(p)] = heap[token]]]

TokenCopy(p) ==
  /\ pc[p] = "tk_copy"
  /\ tok' = [tok EXCEPT ![p] = TokenValue(p).ref]
  /\ heap' = TokenValue(p).heap
  /\ mu' = [mu EXCEPT !.readers = @ \ {p}]
  /\ pc' = [pc EXCEPT ![p] = ret[p]]
  /\ UNCHANGED << token, now, ret, op, arg, hint, out, rerr, req,
                  requests, headers, values, result, hist, calls, fetchable, probe >>

\* The caller of Token() changes a field of the value it was handed.
Tamper(t, f) ==
  CASE f = "AccessToken" -> [t EXCEPT !.AccessToken = "x"]
    [] f = "TokenType" -> [t EXCEPT !.TokenType = "x"]
    [] f = "RefreshToken" -> [t EXCEPT !.RefreshToken = "x"]
    [] f = "Expiry" -> [t EXCEPT !.Expiry = MaxTime + 2]

MutateResult(p) ==
  /\ pc[p] = "held"
  /\ tok[p] # Nil
  /\ \E f \in {"AccessToken", "TokenType", "RefreshToken", "Expiry"} :
        heap' = DropCopy([heap EXCEPT ![tok[p]] = Tamper(@, f)], p)
  /\ pc' = [pc EXCEPT ![p] = "idle"]
  /\ ret' = [ret EXCEPT ![p] = "idle"]
  /\ tok' = [tok EXCEPT ![p] = Nil]
  /\ UNCHANGED << token, mu, now, op, arg, hint, out, rerr, req,
                  requests, headers, values, result, hist, calls, fetchable, probe >>

\* ------------------------------------------------------------- SetToken
\* Lock, the assignment and the deferred Unlock touch nothing but t.mu and
\* t.token and are one step, taken when the lock is free.
SetToken(p) ==
  /\ pc[p] = "st_lock"
  /\ CanLock
  /\ token' = arg[p]
  /\ Return(p, NoResult)
  /\ UNCHANGED << mu, now, op, calls, fetchable, probe >>

\* ------------------------------------------------------------- RefreshToken
\* t.mu.Lock(), then the call t.fetcher.FetchToken(t.token) begins.
RefreshLockSkipFresh(p) ==
  /\ pc[p] = "rf_lock"
  /\ CanLock
  /\ IF token # Nil /\ Expired(token, now) = "false"
       THEN /\ pc' = [pc EXCEPT ![p] = IF op[p] = "RoundTrip" THEN "rt_rfret" ELSE "idle"]
            /\ UNCHANGED << mu, hint, hist >>
       ELSE /\ mu' = [mu EXCEPT !.writer = p]
            /\ hint' = [hint EXCEPT ![p] = token]
            /\ hist' = [hist EXCEPT ![p].fetches = @ + 1]
            /\ pc' = [pc EXCEPT ![p] = "rf_fetch"]
  /\ UNCHANGED << token, heap, now, ret, op, tok, arg, out, rerr, req,
                  requests, headers, values, result, calls, fetchable, probe >>

RefreshNoLock(p) ==
  /\ pc[p] = "rf_lock"
  /\ hint' = [hint EXCEPT ![p] = token]
  /\ hist' = [hist EXCEPT ![p].fetches = @ + 1]
  /\ pc' = [pc EXCEPT ![p] = "rf_fetch"]
  /\ UNCHANGED << token, heap, mu, now, ret, op, tok, arg, out, rerr, req,
                  requests, headers, values, result, calls, fetchable, probe >>

RefreshLockStaleHint(p) ==
  /\ pc[p] = "rf_lock"
  /\ CanLock
  /\ mu' = [mu EXCEPT !.writer = p]
  /\ hint' = [hint EXCEPT ![p] = tok[p]]
  /\ hist' = [hist EXCEPT ![p].fetches = @ + 1]
  /\ pc' = [pc EXCEPT ![p] = "rf_fetch"]
  /\ UNCHANGED << token, heap, now, ret, op, tok, arg, out, rerr, req,
                  requests, headers, values, result, calls, fetchable, probe >>

RefreshLock(p) ==
  /\ pc[p] = "rf_lock"
  /\ CanLock
  /\ mu' = [mu EXCEPT !.writer = p]
  /\ hint' = [hint EXCEPT ![p] = token]
  /\ hist' = [hist EXCEPT ![p].fetches = @ + 1]
  /\ pc' = [pc EXCEPT ![p] = "rf_fetch"]
  /\ UNCHANGED << token, heap, now, ret, op, tok, arg, out, rerr, req,
                  requests, headers, values, result, calls, fetchable, probe >>

\* The fetcher returns (the fetcher is the caller's; any of its results).
FetchToken(p) ==
  /\ pc[p] = "rf_fetch"
  /\ \E r \in fetchable : out' = [out EXCEPT ![p] = r]
  /\ pc' = [pc EXCEPT ![p] = "rf_ret"]
  /\ UNCHANGED << token, heap, mu, now, ret, op, tok, arg, hint, rerr, req,
                  requests, headers, values, result, hist, calls, fetchable, probe >>

\* `if err != nil { return err }; t.token = token; return nil`: the token
\* stored and the error returned.
RefreshStoreAlways(p) == [token |-> out[p].tok, err |-> out[p].err]

RefreshStoreSwallow(p) ==
  IF out[p].err # NoErr THEN [token |-> token, err |-> NoErr]
  ELSE [token |-> out[p].tok, err |-> NoErr]

RefreshStore(p) ==
  IF out[p].err # NoErr THEN [token |-> token, err |-> out[p].err]
  ELSE [token |-> out[p].tok, err |-> NoErr]

\* The deferred t.mu.Unlock().
KeepLocked(p) == mu

Unlock(p) == [mu EXCEPT !.writer = 0]

RefreshReturn(p) ==
  /\ pc[p] = "rf_ret"
  /\ token' = RefreshStore(p).token
  /\ mu' = Unlock(p)
  /\ IF op[p] = "RoundTrip"
       THEN /\ pc' = [pc EXCEPT ![p] = "rt_rfret"]
            /\ rerr' = [rerr EXCEPT ![p] = RefreshStore(p).err]
            /\ UNCHANGED << heap, ret, tok, arg, hint, out, req, requests, headers, values,
                            result, hist >>
       ELSE Return(p, [resp |-> NoErr, err |-> RefreshStore(p).err])
  /\ UNCHANGED << now, op, calls, fetchable, probe >>

\* ------------------------------------------------------------- RoundTrip
\* `if token == nil || Expired(token)`
NeedsRefreshNever(p) == FALSE

NeedsRefreshAlways(p) == TRUE

NeedsRefresh(p) == tok[p] = Nil \/ Expired(tok[p], now) = "true"

RtCheck(p) ==
  /\ pc[p] = "rt_check"
  /\ hist' = [hist EXCEPT ![p].first =
                << [tok |-> IF tok[p] = Nil THEN << >> ELSE << heap[tok[p]] >>, at |-> now] >>]
  /\ IF NeedsRefresh(p)
       THEN pc' = [pc EXCEPT ![p] = "rf_lock"]
       ELSE pc' = [pc EXCEPT ![p] = "rt_clone"]
  /\ UNCHANGED << token, heap, mu, now, ret, op, tok, arg, hint, out, rerr, req,
                  requests, headers, values, result, calls, fetchable, probe >>

\* `if err := t.RefreshToken(); err != nil { return nil, err }; token = t.Token()`
RtAfterRefreshRecheck(p) ==
  /\ pc[p] = "rt_rfret"
  /\ IF rerr[p] # NoErr
       THEN Return(p, [resp |-> NoErr, err |-> rerr[p]])
       ELSE /\ pc' = [pc EXCEPT ![p] = "tk_rlock"]
            /\ ret' = [ret EXCEPT ![p] = "rt_check"]
            /\ UNCHANGED << heap, tok, arg, hint, out, rerr, req, requests, headers, values,
                            result, hist >>
  /\ UNCHANGED << token, mu, now, op, calls, fetchable, probe >>

RtAfterRefresh(p) ==
  /\ pc[p] = "rt_rfret"
  /\ IF rerr[p] # NoErr
       THEN Return(p, [resp |-> NoErr, err |-> rerr[p]])
       ELSE /\ pc' = [pc EXCEPT ![p] = "tk_rlock"]
            /\ ret' = [ret EXCEPT ![p] = "rt_clone"]
            /\ UNCHANGED << heap, tok, arg, hint, out, rerr, req, requests, headers, values,
                            result, hist >>
  /\ UNCHANGED << token, mu, now, op, calls, fetchable, probe >>

\* cloneRequest(r): a new struct with r's fields and a new Header map with r's
\* entries (each entry the same []string as r's).
cloneRequestSameMap(p, r) ==
  [ref |-> p, requests |-> [requests EXCEPT ![p] = requests[r]], headers |-> headers]

cloneRequest(p, r) ==
  [ref |-> p,
   requests |-> [requests EXCEPT ![p] = [requests[r] EXCEPT !.Header = p]],
   headers |-> [headers EXCEPT ![p] = [k \in HeaderKeys |-> headers[requests[r].Header][k]]]]

RtClone(p) ==
  /\ pc[p] = "rt_clone"
  /\ req' = [req EXCEPT ![p] = cloneRequest(p, req[p]).ref]
  /\ requests' = cloneRequest(p, req[p]).requests
  /\ headers' = cloneRequest(p, req[p]).headers
  /\ pc' = [pc EXCEPT ![p] = "rt_header"]
  /\ UNCHANGED << token, heap, mu, now, ret, op, tok, arg, hint, out, rerr,
                  values, result, hist, calls, fetchable, probe >>

\* typ := token.TokenType; if typ == "" { typ = defaultTokenType };
\* the header value is typ + " " + token.AccessToken
AuthorizationValueNoDefault(t) == t.TokenType \o " " \o t.AccessToken

AuthorizationValue(t) ==
  (IF t.TokenType = "" THEN defaultTokenType ELSE t.TokenType) \o " " \o t.AccessToken

\* The headers of request r as the transport receives them: key -> values.
HeaderOf(hs, vs, h) == [k \in HeaderKeys |-> IF hs[h][k] = 0 THEN << >> ELSE vs[hs[h][k]]]

\* token.TokenType on a nil token is a nil dereference; otherwise
\* req.Header.Set("Authorization", ...) puts a new one-value slice under the key
\* and DefaultTransport.RoundTrip(req) is called.
RtSetHeader(p) ==
  /\ pc[p] = "rt_header"
  /\ IF tok[p] = Nil
       THEN /\ pc' = [pc EXCEPT ![p] = "panic"]
            /\ UNCHANGED << headers, values, hist >>
       ELSE /\ headers' = [headers EXCEPT ![requests[req[p]].Header]["Authorization"] = AuthSlice(p)]
            /\ values' = [values EXCEPT ![AuthSlice(p)] = << AuthorizationValue(heap[tok[p]]) >>]
            /\ hist' = [hist EXCEPT ![p].sends = @ + 1,
                                    ![p].sent = << HeaderOf(headers', values', requests[req[p]].Header) >>]
            /\ pc' = [pc EXCEPT ![p] = "rt_wait"]
  /\ UNCHANGED << token, heap, mu, now, ret, op, tok, arg, hint, out, rerr, req,
                  requests, result, calls, fetchable, probe >>

\* DefaultTransport.RoundTrip returns; RoundTrip returns what it returned.
RoundTripResultNoErr(r) == [resp |-> r.resp, err |-> NoErr]

\* return DefaultTransport.RoundTrip(req): the transport's pair is the call's.
RoundTripResult(r) == r

DispatchReturn(p) ==
  /\ pc[p] = "rt_wait"
  /\ \E r \in DispatchResults : ReturnGot(p, RoundTripResult(r), << r >>)
  /\ UNCHANGED << token, mu, now, op, calls, fetchable, probe >>

\* ------------------------------------------------------------- the clock
Tick ==
  /\ now < MaxTime
  /\ now' = now + 1
  /\ UNCHANGED << token, heap, mu, pc, ret, op, tok, arg, hint, out, rerr, req,
                  requests, headers, values, result, hist, calls, fetchable, probe >>

\* ------------------------------------------------------------- specifications
InitLocals ==
  /\ mu = [writer |-> 0, readers |-> {}]
  /\ tok = [p \in Procs |-> Nil]
  /\ arg = [p \in Procs |-> Nil]
  /\ hint = [p \in Procs |-> Nil]
  /\ out = [p \in Procs |-> [tok |-> Nil, err |-> NoErr]]
  /\ rerr = [p \in Procs |-> NoErr]
  /\ req = [p \in Procs |-> 0]
  /\ requests = [r \in ReqIds |-> IF r = 0 THEN [Method |-> "GET", Header |-> 0] ELSE NoReq]
  /\ values = [s \in SliceIds |-> IF s = 1 THEN << "Basic u" >>
                                  ELSE IF s = 2 THEN << "json" >> ELSE << >>]
  /\ result = [p \in Procs |-> NoResult]
  /\ hist = [p \in Procs |-> NoHist]

\* The caller's request: Accept is set; Authorization is unset (a = 0) or set to
\* another credential (a = 1).
InitRequest(a) ==
  headers = [h \in ReqIds |-> IF h = 0 THEN [k \in HeaderKeys |-> IF k = "Accept" THEN 2 ELSE a]
                              ELSE NoHeader]

InitHeap == heap = [o \in Objs |-> IF o \in ExtObjs THEN ExtTokens[o] ELSE ZeroToken]
NoProbe == [ref |-> Nil, out |-> "none"]

\* The general scenario: NewAuthorizedTransport(fetcher, token) with any token,
\* then up to MaxCalls calls of the four methods from NumProcs goroutines.
Init ==
  /\ InitLocals
  /\ \E a \in {0, 1} : InitRequest(a)
  /\ InitHeap
  /\ probe = NoProbe
  /\ token \in {Nil} \cup ExtObjs
  /\ now = 1
  /\ pc = [p \in Procs |-> "idle"]
  /\ ret = [p \in Procs |-> "idle"]
  /\ op = [p \in Procs |-> "none"]
  /\ calls = MaxCalls
  /\ fetchable = FetchResults

Step(p) ==
  \/ CallRoundTrip(p) \/ CallToken(p) \/ CallSetToken(p) \/ CallRefreshToken(p)
  \/ TokenRLock(p) \/ TokenCopy(p) \/ MutateResult(p)
  \/ SetToken(p)
  \/ RefreshLock(p) \/ FetchToken(p) \/ RefreshReturn(p)
  \/ RtCheck(p) \/ RtAfterRefresh(p) \/ RtClone(p) \/ RtSetHeader(p) \/ DispatchReturn(p)

Next == Tick \/ \E p \in Procs : Step(p)

Spec == Init /\ [][Next]_vars

\* N concurrent RoundTrip calls on one transport whose token is nil or has an
\* empty access token; the fetcher returns token 2 or fails.
ConcFetchResults == {[tok |-> 2, err |-> NoErr], [tok |-> Nil, err |-> "E1"]}

InitConc ==
  /\ InitLocals
  /\ InitRequest(1)
  /\ InitHeap
  /\ probe = NoProbe
  /\ token \in {Nil, 3}
  /\ now = 1
  /\ pc = [p \in Procs |-> "tk_rlock"]
  /\ ret = [p \in Procs |-> "rt_check"]
  /\ op = [p \in Procs |-> "RoundTrip"]
  /\ calls = 0
  /\ fetchable = ConcFetchResults

StepRoundTrip(p) ==
  \/ TokenRLock(p) \/ TokenCopy(p)
  \/ RefreshLock(p) \/ FetchToken(p) \/ RefreshReturn(p)
  \/ RtCheck(p) \/ RtAfterRefresh(p) \/ RtClone(p) \/ RtSetHeader(p) \/ DispatchReturn(p)

NextConc == Tick \/ \E p \in Procs : StepRoundTrip(p)

SpecConc == InitConc /\ [][NextConc]_vars

\* The same calls with a fetcher that always returns token 2 (which never
\* expires), every goroutine being scheduled again and again: the Go scheduler
\* runs every runnable goroutine, and a sync.RWMutex that is free is handed to
\* one of the goroutines waiting for it.
InitLive ==
  /\ InitLocals
  /\ InitRequest(1)
  /\ InitHeap
  /\ probe = NoProbe
  /\ token \in {Nil, 3}
  /\ now = 1
  /\ pc = [p \in Procs |-> "tk_rlock"]
  /\ ret = [p \in Procs |-> "rt_check"]
  /\ op = [p \in Procs |-> "RoundTrip"]
  /\ calls = 0
  /\ fetchable = {[tok |-> 2, err |-> NoErr]}

SpecLive == InitLive /\ [][NextConc]_vars /\ \A p \in Procs : WF_vars(StepRoundTrip(p))

\* The general scenario with the code around the transport acting on what it
\* owns. The token objects are the caller's and the fetcher's: the one that is
\* the transport's token now was passed to NewAuthorizedTransport or SetToken,
\* or was returned by FetchToken, in a call that is over, and is the hint of a
\* fetch in progress; its owner changes one of its fields, once per object.
MutateToken(o) ==
  /\ o = token
  /\ heap[o] = ExtTokens[o]
  /\ \E f \in {"AccessToken", "TokenType", "RefreshToken", "Expiry"} :
        heap' = [heap EXCEPT ![o] = Tamper(@, f)]
  /\ UNCHANGED << token, mu, now, pc, ret, op, tok, arg, hint, out, rerr, req,
                  requests, headers, values, result, hist, calls, fetchable, probe >>

\* The underlying transport, holding the clone it was given, overwrites the first
\* element of one of the clone's header value lists.
MutateHeader(p) ==
  /\ pc[p] = "rt_wait"
  /\ \E k \in HeaderKeys :
        /\ headers[requests[req[p]].Header][k] # 0
        /\ values[headers[requests[req[p]].Header][k]][1] # "x"
        /\ values' = [values EXCEPT ![headers[requests[req[p]].Header][k]][1] = "x"]
  /\ UNCHANGED << token, heap, mu, now, pc, ret, op, tok, arg, hint, out, rerr, req,
                  requests, headers, result, hist, calls, fetchable, probe >>

InitAlias ==
  /\ InitLocals
  /\ InitRequest(1)
  /\ InitHeap
  /\ probe = NoProbe
  /\ token \in {Nil} \cup ExtObjs
  /\ now = 1
  /\ pc = [p \in Procs |-> "idle"]
  /\ ret = [p \in Procs |-> "idle"]
  /\ op = [p \in Procs |-> "none"]
  /\ calls = MaxCalls
  /\ fetchable = ConcFetchResults

NextAlias ==
  \/ Next
  \/ \E o \in ExtObjs : MutateToken(o)
  \/ \E p \in Procs : MutateHeader(p)

SpecAlias == InitAlias /\ [][NextAlias]_vars

\* Expired called directly, on nil or on object 1 holding any token, at any time.
InitExpired ==
  /\ InitLocals
  /\ InitRequest(1)
  /\ \E t \in PlainTokens :
       heap = [o \in Objs |-> IF o = 1 THEN t ELSE IF o \in ExtObjs THEN ExtTokens[o] ELSE ZeroToken]
  /\ \E r \in {Nil, 1} : probe = [ref |-> r, out |-> "none"]
  /\ token = Nil
  /\ now \in 1..MaxTime
  /\ pc = [p \in Procs |-> "idle"]
  /\ ret = [p \in Procs |-> "idle"]
  /\ op = [p \in Procs |-> "none"]
  /\ calls = 0
  /\ fetchable = {}

EvalExpired ==
  /\ probe.out = "none"
  /\ probe' = [probe EXCEPT !.out = Expired(probe.ref, now)]
  /\ UNCHANGED << token, heap, mu, now, pc, ret, op, tok, arg, hint, out, rerr, req,
                  requests, headers, values, result, hist, calls, fetchable >>

NextExpired == EvalExpired

SpecExpired == InitExpired /\ [][NextExpired]_vars

\* ===================================================================== claims
RECURSIVE SumFetches(_)
SumFetches(S) ==
  IF S = {} THEN 0
  ELSE LET p == CHOOSE x \in S : TRUE IN hist[p].fetches + SumFetches(S \ {p})
TotalFetches == SumFetches(Procs)

Fetching == {p \in Procs : pc[p] \in {"rf_fetch", "rf_ret"}}

\* A token is expired at a time: no access token, or an expiry that is set and
\* before that time.
IsExpiredAt(t, at) == t.AccessToken = "" \/ (t.Expiry # ZeroTime /\ t.Expiry < at)

\* RoundTrip has made its check, and the token it had read was nil or expired.
Checked(p) == op[p] = "RoundTrip" /\ hist[p].first # << >>
FirstStale(p) ==
  /\ Checked(p)
  /\ \/ hist[p].first[1].tok = << >>
     \/ /\ hist[p].first[1].tok # << >>
        /\ IsExpiredAt(hist[p].first[1].tok[1], hist[p].first[1].at)
FirstValid(p) == Checked(p) /\ ~FirstStale(p)

Moves(p) == pc'[p] # pc[p]

\* C1: with N concurrent RoundTrip calls the fetcher is invoked at most N times,
\* and never twice at once: the goroutine in FetchToken holds the write lock and
\* is the only one between the call of FetchToken and RefreshToken's return.
C1_FetchesSerialized ==
  /\ Cardinality(Fetching) <= 1
  /\ \A p \in Fetching : mu.writer = p /\ mu.readers = {}
  /\ TotalFetches <= NumProcs

\* A second fetch is in progress after another goroutine's fetch has returned.
C1_Witness ==
  \E p, q \in Procs :
    /\ p # q
    /\ pc[p] = "rf_fetch"
    /\ hist[q].fetches = 1
    /\ q \notin Fetching

\* All N calls have read the same nil or expired token and decided to refresh.
SharedStale ==
  /\ NumProcs >= 2
  /\ \A p \in Procs : FirstStale(p)
  /\ \A p, q \in Procs : hist[p].first[1].tok = hist[q].first[1].tok

\* C2, as stated: when all N calls discover the same expired token and no fetch
\* fails, exactly one of them invokes the fetcher.
C2_ExactlyOneFetch ==
  (SharedStale /\ \A p \in Procs : out[p].err = NoErr /\ result[p].err = NoErr)
    => TotalFetches <= 1

\* C2, amended: every call that discovered the expired token invokes the
\* fetcher itself, exactly once, as soon as it has the lock; the fetches never
\* overlap, the others waiting for the lock in the meantime.
C2_EachFetches ==
  /\ \A p \in Procs :
       FirstStale(p) => hist[p].fetches = (IF pc[p] = "rf_lock" THEN 0 ELSE 1)
  /\ Cardinality(Fetching) <= 1
  /\ \A p \in Fetching : mu.writer = p

\* All N calls discovered the same expired token and all N have fetched.
C2_Witness == SharedStale /\ \A p \in Procs : hist[p].fetches = 1

\* C3: with a fetcher that always returns a token that is not expired and a
\* transport that always returns, every one of the N calls eventually returns
\* what the transport returned, having dispatched once; and each request
\* dispatched carries the header of a token that is non-nil and not expired.
C3_AllComplete ==
  /\ [](\A p \in Procs :
          pc[p] = "rt_wait" =>
            /\ tok[p] # Nil
            /\ ~IsExpiredAt(heap[tok[p]], now)
            /\ hist[p].sent[1]["Authorization"] = << AuthorizationValue(heap[tok[p]]) >>)
  /\ <>(\A p \in Procs :
          pc[p] = "idle" /\ hist[p].sends = 1 /\ result[p] \in DispatchResults)

C3_Witness ==
  \A p \in Procs : pc[p] = "idle" /\ hist[p].sends = 1 /\ hist[p].fetches = 1

\* C4: when RoundTrip refreshes and the fetcher returns error E, RefreshToken
\* leaves t.token as it was when the lock was taken and returns E, and RoundTrip
\* returns (nil, E) without having called the underlying transport and without
\* changing t.token.
C4_RefreshFailure ==
  /\ [](\A p \in Procs :
          (op[p] = "RoundTrip" /\ pc[p] = "rf_ret") => token = hint[p])
  /\ [][\A p \in Procs :
          (op[p] = "RoundTrip" /\ pc[p] = "rf_ret" /\ out[p].err # NoErr /\ Moves(p)) =>
            /\ pc'[p] = "rt_rfret"
            /\ rerr'[p] = out[p].err
            /\ token' = token]_vars
  /\ [][\A p \in Procs :
          (pc[p] = "rt_rfret" /\ rerr[p] # NoErr /\ Moves(p)) =>
            /\ pc'[p] = "idle"
            /\ result'[p] = [resp |-> NoErr, err |-> rerr[p]]
            /\ hist'[p].sends = 0
            /\ token' = token]_vars

\* A RoundTrip has returned a fetcher's error, with nothing dispatched.
C4_Witness ==
  \E p \in Procs :
    /\ op[p] = "RoundTrip"
    /\ pc[p] = "idle"
    /\ result[p].err \in FetchErrors
    /\ result[p].resp = NoErr
    /\ hist[p].sends = 0

\* What RefreshToken returns to its caller.
RefreshErr(p) == IF op[p] = "RoundTrip" THEN rerr'[p] ELSE result'[p].err

\* C5: from the Lock to the return of RefreshToken t.token is what it was at the
\* Lock; the return releases the lock and either stores the fetched token and
\* returns nil (fetch succeeded) or stores nothing and returns the fetcher's
\* error (fetch failed).  No token object is changed.
C5_AllOrNothing ==
  /\ [](\A p \in Fetching : mu.writer = p /\ token = hint[p])
  /\ [][\A p \in Procs :
          (pc[p] = "rf_ret" /\ Moves(p)) =>
            /\ mu'.writer = 0
            /\ \A o \in ExtObjs : heap'[o] = heap[o]
            /\ IF out[p].err = NoErr
                 THEN token' = out[p].tok /\ RefreshErr(p) = NoErr
                 ELSE token' = token /\ RefreshErr(p) = out[p].err]_vars

\* A direct RefreshToken call has failed while a token was set.
C5_Witness ==
  \E p \in Procs :
    /\ op[p] = "RefreshToken"
    /\ pc[p] = "idle"
    /\ result[p].err \in FetchErrors
    /\ token # Nil

\* C6: a RoundTrip whose first read gave a token that is non-nil and not expired
\* never invokes the fetcher and never changes t.token; it goes on to clone and
\* dispatch exactly one request, authorized with the token it read.
C6_ValidTokenNoFetch ==
  /\ [](\A p \in Procs :
          FirstValid(p) =>
            /\ hist[p].fetches = 0
            /\ pc[p] \in {"rt_clone", "rt_header", "rt_wait"}
            /\ hist[p].sends = (IF pc[p] = "rt_wait" THEN 1 ELSE 0)
            /\ pc[p] = "rt_wait" =>
                 hist[p].sent[1]["Authorization"] =
                   << AuthorizationValue(hist[p].first[1].tok[1]) >>)
  /\ [][\A p \in Procs :
          (FirstValid(p) /\ Moves(p)) =>
            /\ token' = token
            /\ hist'[p].fetches = 0
            /\ pc[p] = "rt_wait" => (pc'[p] = "idle" /\ hist'[p].sends = 1)]_vars

\* A request was dispatched with the token read first, which expires exactly now.
C6_Witness ==
  \E p \in Procs :
    /\ FirstValid(p)
    /\ pc[p] = "rt_wait"
    /\ hist[p].first[1].tok[1].Expiry = now

\* C7, as stated: a RoundTrip that refreshed, the fetcher having returned T2,
\* has invoked the fetcher once and dispatches the header built from T2.
C7_HeaderFromFetched ==
  \A p \in Procs :
    (op[p] = "RoundTrip" /\ pc[p] = "rt_wait" /\ out[p].tok # Nil /\ out[p].err = NoErr) =>
      /\ hist[p].fetches = 1
      /\ hist[p].sent[1]["Authorization"] = << AuthorizationValue(heap[out[p].tok]) >>

\* C7, amended: a RoundTrip that read a nil or expired token invokes the fetcher
\* exactly once; when the fetch succeeds with T2 the return of RefreshToken makes
\* T2 the current token; the call then reads the current token again, which is
\* T2 if no other call has replaced it, and dispatches one request with the
\* header built from the token it read again.
C7_RefreshOnDemand ==
  /\ [](\A p \in Procs :
          /\ FirstStale(p) => hist[p].fetches = (IF pc[p] = "rf_lock" THEN 0 ELSE 1)
          /\ (op[p] = "RoundTrip" /\ pc[p] = "rt_wait" /\ hist[p].fetches = 1) =>
               /\ hist[p].sends = 1
               /\ tok[p] # Nil
               /\ hist[p].sent[1]["Authorization"] = << AuthorizationValue(heap[tok[p]]) >>)
  /\ [][\A p \in Procs :
          (op[p] = "RoundTrip" /\ pc[p] = "rf_ret" /\ out[p].err = NoErr /\ Moves(p)) =>
            token' = out[p].tok]_vars
  /\ [][\A p \in Procs :
          (pc[p] = "tk_copy" /\ ret[p] = "rt_clone" /\ Moves(p)
             /\ token = out[p].tok /\ token # Nil) =>
            (tok'[p] # Nil /\ heap'[tok'[p]] = heap[out[p].tok])]_vars

\* A refreshed RoundTrip has dispatched the header of the token just fetched,
\* which is the current token.
C7_Witness ==
  \E p \in Procs :
    /\ FirstStale(p)
    /\ pc[p] = "rt_wait"
    /\ hist[p].fetches = 1
    /\ out[p].tok # Nil
    /\ token = out[p].tok
    /\ hist[p].sent[1]["Authorization"] = << AuthorizationValue(heap[out[p].tok]) >>

\* C8: no step changes the caller's request: its struct, its header map and the
\* value lists of its headers stay as they are; the request handed to the
\* transport is another struct with another map, and it has the new header.
C8_RequestNotMutated ==
  /\ [][/\ requests'[0] = requests[0]
        /\ headers'[0] = headers[0]
        /\ values'[1] = values[1]
        /\ values'[2] = values[2]]_vars
  /\ [](\A p \in Procs :
          pc[p] = "rt_wait" =>
            /\ req[p] # 0
            /\ requests[req[p]].Header # requests[0].Header
            /\ requests[req[p]].Method = requests[0].Method
            /\ headers[requests[req[p]].Header]["Authorization"] = AuthSlice(p)
            /\ headers[requests[req[p]].Header]["Accept"] = headers[0]["Accept"])

\* A request was dispatched with a new Authorization value while the caller's
\* request still carries its own.
C8_Witness ==
  \E p \in Procs :
    /\ pc[p] = "rt_wait"
    /\ headers[0]["Authorization"] = 1
    /\ HeaderOf(headers, values, 0)["Authorization"] = << "Basic u" >>
    /\ hist[p].sent[1]["Authorization"] # << "Basic u" >>

\* C9: Token() returns nil when no token is set and otherwise a new object, not
\* the stored one, holding the stored token's fields; changing a field of the
\* returned object changes neither t.token nor the object it points to.
C9_TokenReturnsCopy ==
  [][\A p \in Procs :
       /\ (pc[p] = "tk_copy" /\ Moves(p)) =>
            IF token = Nil THEN tok'[p] = Nil
            ELSE /\ tok'[p] \notin {Nil, token}
                 /\ heap'[tok'[p]] = heap[token]
                 /\ heap'[token] = heap[token]
       /\ (pc[p] = "held" /\ pc'[p] = "idle") =>
            /\ token' = token
            /\ token # Nil => heap'[token] = heap[token]]_vars

\* The caller of Token() has changed the value it got, and a token is stored.
C9_Witness ==
  \E p \in Procs : op[p] = "Token" /\ pc[p] = "idle" /\ token # Nil

\* C10: for a non-nil token, Expired returns true exactly when the access token
\* is empty or the expiry is set and before the current time.
C10_ExpiredIff ==
  (probe.out # "none" /\ probe.ref # Nil) =>
    probe.out = (IF heap[probe.ref].AccessToken = ""
                      \/ (heap[probe.ref].Expiry # ZeroTime /\ heap[probe.ref].Expiry < now)
                   THEN "true" ELSE "false")

\* Expired has returned true for an empty access token with a future expiry.
C10_Witness ==
  /\ probe.out = "true"
  /\ probe.ref # Nil
  /\ heap[probe.ref].AccessToken = ""
  /\ heap[probe.ref].Expiry > now

\* C11: the request handed to the underlying transport has exactly one
\* Authorization value, "<Type> <AccessToken>" of the token used, Type being
\* "Bearer" when the token has none, whatever Authorization the caller's request
\* had.
C11_HeaderFormat ==
  \A p \in Procs :
    pc[p] = "rt_wait" =>
      /\ tok[p] # Nil
      /\ Len(hist[p].sent[1]["Authorization"]) = 1
      /\ hist[p].sent[1]["Authorization"][1] =
           (IF heap[tok[p]].TokenType = "" THEN "Bearer" ELSE heap[tok[p]].TokenType)
             \o " " \o heap[tok[p]].AccessToken
      /\ values[AuthSlice(p)] = hist[p].sent[1]["Authorization"]

\* A token without a type was sent as Bearer in place of the caller's own
\* Authorization value.
C11_Witness ==
  \E p \in Procs :
    /\ pc[p] = "rt_wait"
    /\ headers[0]["Authorization"] = 1
    /\ heap[tok[p]].TokenType = ""
    /\ hist[p].sent[1]["Authorization"] = << "Bearer a1" >>

\* C12: one RoundTrip invokes the fetcher at most once and the transport at most
\* once; after its refresh it only reads the token again, clones and dispatches,
\* also when the token it then holds is expired.
C12_NoLoop ==
  \A p \in Procs :
    /\ hist[p].fetches <= 1
    /\ hist[p].sends <= 1
    /\ (op[p] = "RoundTrip" /\ hist[p].fetches = 1 /\ pc[p] \in {"tk_rlock", "tk_copy"}) =>
         ret[p] = "rt_clone"
    /\ (op[p] = "RoundTrip" /\ hist[p].fetches = 1 /\ pc[p] = "rt_wait") =>
         hist[p].sends = 1

\* After a refresh a request was dispatched with a token that is expired.
C12_Witness ==
  \E p \in Procs :
    /\ pc[p] = "rt_wait"
    /\ hist[p].fetches = 1
    /\ hist[p].sends = 1
    /\ tok[p] # Nil
    /\ IsExpiredAt(heap[tok[p]], now)

\* C13: what the underlying transport returns, a response or an error, is
\* what RoundTrip returns; the call ends there, with its one dispatch, without a
\* fetch on account of the outcome and with the current token left as it was.
C13_DispatchVerbatim ==
  /\ [](\A p \in Procs :
          hist[p].got # << >> =>
            /\ pc[p] = "idle"
            /\ result[p] = hist[p].got[1]
            /\ hist[p].sends = 1)
  /\ [][\A p \in Procs :
          (pc[p] = "rt_wait" /\ Moves(p)) =>
            /\ pc'[p] = "idle"
            /\ hist'[p].got # << >>
            /\ hist'[p].sends = hist[p].sends
            /\ hist'[p].fetches = hist[p].fetches
            /\ token' = token
            /\ (token # Nil => heap'[token] = heap[token])]_vars

\* A call whose dispatch failed with E3 returned E3 and no response.
C13_Witness ==
  \E p \in Procs :
    /\ pc[p] = "idle"
    /\ op[p] = "RoundTrip"
    /\ hist[p].got = << [resp |-> NoErr, err |-> "E3"] >>
    /\ result[p] = [resp |-> NoErr, err |-> "E3"]
    /\ hist[p].sends = 1

\* C14: the hint a FetchToken call is given is the transport's current token,
\* the object stored when the call took the exclusive lock and still stored
\* while the fetch runs, not the copy RoundTrip read before.
C14_HintIsCurrent ==
  \A p \in Procs :
    pc[p] \in {"rf_fetch", "rf_ret"} =>
      /\ hint[p] = token
      /\ hint[p] \in {Nil} \cup ExtObjs
      /\ (tok[p] # Nil => hint[p] # tok[p])

\* RoundTrip had read no token, a token was set before it took the lock, and the
\* fetcher is handed that token.
C14_Witness ==
  \E p \in Procs :
    /\ pc[p] = "rf_fetch"
    /\ op[p] = "RoundTrip"
    /\ hist[p].first[1].tok = << >>
    /\ hint[p] # Nil

\* C15: while a FetchToken is in progress its caller holds the exclusive lock:
\* no Token() is inside its read section, and no Token(), SetToken() or
\* RefreshToken() of another goroutine can take its lock, so none completes
\* before the fetcher returns.
C15_LockedAcrossFetch ==
  \A q \in Procs :
    pc[q] = "rf_fetch" =>
      /\ mu.writer = q
      /\ mu.readers = {}
      /\ \A p \in Procs \ {q} :
           /\ pc[p] # "tk_copy"
           /\ ~ ENABLED TokenRLock(p)
           /\ ~ ENABLED SetToken(p)
           /\ ~ ENABLED RefreshLock(p)

\* During a fetch another goroutine is waiting at the lock.
C15_Witness ==
  \E q \in Procs : \E p \in Procs \ {q} :
    /\ pc[q] = "rf_fetch"
    /\ pc[p] \in {"tk_rlock", "st_lock", "rf_lock"}

\* The tokens that are supplied whole: by the constructor, to SetToken, or by
\* the fetcher.
SuppliedTokens == {ExtTokens[o] : o \in ExtObjs}

\* C16: the stored token and every value Token() has returned are nil or equal,
\* field by field, to one supplied token.
C16_Wholesale ==
  /\ token \in {Nil} \cup ExtObjs
  /\ token # Nil => heap[token] \in SuppliedTokens
  /\ \A p \in Procs :
       tok[p] # Nil => heap[tok[p]] \in SuppliedTokens

\* Token() returned the fields of the second token while a SetToken of another
\* goroutine is pending.
C16_Witness ==
  \E p \in Procs : \E q \in Procs \ {p} :
    /\ pc[p] = "held"
    /\ tok[p] # Nil
    /\ heap[tok[p]] = ExtTokens[2]
    /\ pc[q] = "st_lock"

\* C17: no reference to the transport's token is held outside it: whatever
\* the owners of the supplied token objects do to them afterwards, a value
\* Token() returns has the fields of a token as it was supplied.
C17_NoEscape ==
  \A p \in Procs :
    (pc[p] = "held" /\ tok[p] # Nil) => heap[tok[p]] \in SuppliedTokens

\* C18: the clone has its own duplicate of every header value list, so a write
\* into a value list of the clone leaves the values of the caller's request as
\* they were.
C18_DeepCopy ==
  /\ HeaderOf(headers, values, 0)["Authorization"] = << "Basic u" >>
  /\ HeaderOf(headers, values, 0)["Accept"] = << "json" >>

\* C19: Expired applied to a nil token returns true, as an ordinary result.
C19_ExpiredNil ==
  (probe.ref = Nil /\ probe.out # "none") => probe.out = "true"

\* C20: RoundTrip never builds the Authorization header from a nil token,
\* whatever the fetcher returns and whatever SetToken calls run beside it.
C20_NeverNilToken ==
  \A p \in Procs :
    /\ pc[p] = "rt_header" => tok[p] # Nil
    /\ pc[p] # "panic"

====
